---- MODULE Spec2Model ----
(***************************************************************************)
(* Model of the Jira sprint synchronisation scripts:                       *)
(*   scripts/utils/jira_parser.py   description parser, label mapper,      *)
(*                                  progress aggregation                   *)
(*   scripts/sync_jira.py           orchestrator writing local JSON files  *)
(*   scripts/sync_jira_to_repo.py   orchestrator writing through the       *)
(*                                  GitHub Contents API                    *)
(*                                                                         *)
(* Python strings that the code inspects character by character are        *)
(* sequences of one-character strings; None is the one-element sequence    *)
(* Null for strings and the record NoRecord for dictionaries.              *)
(***************************************************************************)
EXTENDS Integers, Sequences, FiniteSets, TLC

VARIABLES
    variant, pc, exitCode, sprint, tasks, existing_data, existing_sha,
    sprint_data, store, pointer, loadedStore, writes, buildCalls, saveResult,
    sprint_files,
    description, result,
    text, client_title,
    match_labels, match_goals, match_result,
    progress_tasks, progress_result,
    status_field, status_result,
    issues, epic_cache, epic_calls, tasks_out,
    build_args, build_result

varsMain == <<variant, pc, exitCode, sprint, tasks, existing_data, existing_sha,
              sprint_data, store, pointer, loadedStore, writes, buildCalls,
              saveResult, sprint_files>>
varsParse == <<description, result>>
varsClient == <<text, client_title>>
varsMatch == <<match_labels, match_goals, match_result>>
varsProgress == <<progress_tasks, progress_result>>
varsStatus == <<status_field, status_result>>
varsIssues == <<issues, epic_cache, epic_calls, tasks_out>>
varsBuild == <<build_args, build_result>>
varsFunctions == <<varsMatch, varsProgress, varsStatus, varsIssues, varsBuild>>
vars == <<varsMain, varsParse, varsClient, varsFunctions>>

----------------------------------------------------------------------------
(* Strings *)

Null == <<"null">>

\* None where the code expects a dictionary
NoRecord == [kind |-> "none"]

\* the variables of the specifications of single functions, before a call
MatchIdle == match_labels = <<>> /\ match_goals = <<>> /\ match_result = NoRecord
ProgressIdle == progress_tasks = <<>> /\ progress_result = NoRecord
StatusIdle == status_field = NoRecord /\ status_result = "none"
IssuesIdle ==
    issues = <<>> /\ epic_cache = {} /\ epic_calls = <<>> /\ tasks_out = <<>>
BuildIdle == build_args = NoRecord /\ build_result = NoRecord
FunctionsIdle ==
    MatchIdle /\ ProgressIdle /\ StatusIdle /\ IssuesIdle /\ BuildIdle

Whitespace == {" ", "\t", "\n"}

Digits == {"0", "1", "2", "3", "4", "5", "6", "7", "8", "9"}

\* str.lower() on the characters the model uses
LowerChar(c) ==
    CASE c = "A" -> "a" [] c = "B" -> "b" [] c = "C" -> "c" [] c = "D" -> "d"
      [] c = "E" -> "e" [] c = "F" -> "f" [] c = "G" -> "g" [] c = "H" -> "h"
      [] c = "I" -> "i" [] c = "J" -> "j" [] c = "K" -> "k" [] c = "L" -> "l"
      [] c = "M" -> "m" [] c = "N" -> "n" [] c = "O" -> "o" [] c = "P" -> "p"
      [] c = "Q" -> "q" [] c = "R" -> "r" [] c = "S" -> "s" [] c = "T" -> "t"
      [] c = "U" -> "u" [] c = "V" -> "v" [] c = "W" -> "w" [] c = "X" -> "x"
      [] c = "Y" -> "y" [] c = "Z" -> "z"
      [] c = "E_ogonek" -> "e_ogonek" [] c = "A_ogonek" -> "a_ogonek"
      [] c = "L_stroke" -> "l_stroke" [] c = "O_acute" -> "o_acute"
      [] c = "N_acute" -> "n_acute"
      [] OTHER -> c

Lower(s) == [i \in 1..Len(s) |-> LowerChar(s[i])]

\* first index >= p of s that holds no whitespace, Len(s)+1 if there is none
RECURSIVE SkipWs(_, _)
SkipWs(s, p) ==
    IF p > Len(s) THEN Len(s) + 1
    ELSE IF s[p] \in Whitespace THEN SkipWs(s, p + 1) ELSE p

\* last index <= p of s that holds no whitespace, 0 if there is none
RECURSIVE SkipWsBack(_, _)
SkipWsBack(s, p) ==
    IF p < 1 THEN 0
    ELSE IF s[p] \in Whitespace THEN SkipWsBack(s, p - 1) ELSE p

\* str.strip()
Strip(s) == SubSeq(s, SkipWs(s, 1), SkipWsBack(s, Len(s)))

\* kw in s (substring test)
Contains(s, kw) ==
    \E i \in 1..(Len(s) - Len(kw) + 1) : SubSeq(s, i, i + Len(kw) - 1) = kw

\* first index > p of s holding character c, 0 if there is none
RECURSIVE IndexAfter(_, _, _)
IndexAfter(s, p, c) ==
    IF p >= Len(s) THEN 0
    ELSE IF s[p + 1] = c THEN p + 1 ELSE IndexAfter(s, p + 1, c)

----------------------------------------------------------------------------
(* parse_client_from_text *)

\* re.search(r'\[([^\]]+)\]', text): <<i, j>> with text[i] = "[" and text[j]
\* the "]" closing it, for the leftmost i at which the pattern matches;
\* <<0, 0>> when it matches nowhere.  The group cannot cross a "]" and needs
\* one character at least, so at i the only candidate j is the first "]"
\* after i, and it must not be i + 1.
BracketAt(s, i) ==
    IF s[i] # "[" THEN 0
    ELSE LET j == IndexAfter(s, i, "]") IN IF j > i + 1 THEN j ELSE 0

RECURSIVE SearchBracket(_, _)
SearchBracket(s, i) ==
    IF i > Len(s) THEN <<0, 0>>
    ELSE IF BracketAt(s, i) # 0 THEN <<i, BracketAt(s, i)>>
    ELSE SearchBracket(s, i + 1)

\* the pattern r'\s*\[[^\]]+\]\s*' tried at position p: the index after the
\* match, 0 when it does not match at p
TagMatchEnd(s, p) ==
    LET q == SkipWs(s, p) IN
    IF q > Len(s) THEN 0
    ELSE IF BracketAt(s, q) = 0 THEN 0
    ELSE SkipWs(s, BracketAt(s, q) + 1)

SubReplacementEmpty == <<>>

\* the replacement string of the re.sub call
SubReplacement == <<" ">>

\* re.sub(r'\s*\[[^\]]+\]\s*', ' ', text): every non-overlapping match,
\* scanning from the left, is replaced
RECURSIVE SubTags(_, _)
SubTags(s, p) ==
    IF p > Len(s) THEN <<>>
    ELSE IF TagMatchEnd(s, p) # 0
         THEN SubReplacement \o SubTags(s, TagMatchEnd(s, p))
         ELSE <<s[p]>> \o SubTags(s, p + 1)

\* returns <<client, cleaned>>
parse_client_from_text(t0) ==
    LET t == Strip(t0)
        m == SearchBracket(t, 1)
    IN IF m[1] # 0
       THEN <<Strip(SubSeq(t, m[1] + 1, m[2] - 1)), Strip(SubTags(t, 1))>>
       ELSE <<Null, t>>

----------------------------------------------------------------------------
(* parse_sprint_description *)

KwCeleGlowne == <<"c", "e", "l", "e", " ", "g", "l_stroke", "o_acute", "w", "n", "e">>
KwCeleSprintu == <<"c", "e", "l", "e", " ", "s", "p", "r", "i", "n", "t", "u">>
KwSprintGoals == <<"s", "p", "r", "i", "n", "t", " ", "g", "o", "a", "l", "s">>
KwCelePoboczne == <<"c", "e", "l", "e", " ", "p", "o", "b", "o", "c", "z", "n", "e">>
KwSideGoals == <<"s", "i", "d", "e", " ", "g", "o", "a", "l", "s">>
KwPoboczn == <<"p", "o", "b", "o", "c", "z", "n">>

\* the keyword list of the first pass
HeaderKeywords ==
    {KwCeleGlowne, KwCeleSprintu, KwSprintGoals, KwCelePoboczne, KwSideGoals}

\* the keywords of the second pass, per section
GoalsKeywords == {KwCeleGlowne, KwCeleSprintu, KwSprintGoals}
SideGoalsKeywords == {KwCelePoboczne, KwSideGoals, KwPoboczn}

ContainsAny(s, kws) == \E kw \in kws : Contains(s, kw)

\* str.split(sep) for a one-character separator
RECURSIVE Split(_, _)
Split(s, sep) ==
    LET i == IndexAfter(s, 0, sep) IN
    IF i = 0 THEN <<s>>
    ELSE <<SubSeq(s, 1, i - 1)>> \o Split(SubSeq(s, i + 1, Len(s)), sep)

\* first index >= p of s that holds no character of set cs, Len(s)+1 if none
RECURSIVE SkipSet(_, _, _)
SkipSet(s, p, cs) ==
    IF p > Len(s) THEN Len(s) + 1
    ELSE IF s[p] \in cs THEN SkipSet(s, p + 1, cs) ELSE p

MarkerEnd == {".", ")"} \cup Whitespace

\* re.match(r'^\d+[.)\s]', line)
_is_numbered_item(line) ==
    LET q == SkipSet(line, 1, Digits) IN
    q > 1 /\ q <= Len(line) /\ line[q] \in MarkerEnd

\* re.match(r'^[-*]\s', line)
_is_dash_item(line) ==
    Len(line) >= 2 /\ line[1] \in {"-", "*"} /\ line[2] \in Whitespace

\* line.startswith('##') or line.startswith('**')
_is_section_header(line) ==
    Len(line) >= 2 /\ SubSeq(line, 1, 2) \in {<<"#", "#">>, <<"*", "*">>}

\* re.sub(r'^[\d]+[.)\s]+|^[-*]\s+', '', line)
RemoveListMarker(line) ==
    LET q == SkipSet(line, 1, Digits)
        r == SkipSet(line, q, MarkerEnd)
    IN IF q > 1 /\ r > q THEN SubSeq(line, r, Len(line))
       ELSE IF _is_dash_item(line)
            THEN SubSeq(line, SkipWs(line, 2), Len(line))
            ELSE line

\* str(n) for n >= 0
DigitChar(d) ==
    CASE d = 0 -> "0" [] d = 1 -> "1" [] d = 2 -> "2" [] d = 3 -> "3"
      [] d = 4 -> "4" [] d = 5 -> "5" [] d = 6 -> "6" [] d = 7 -> "7"
      [] d = 8 -> "8" [] d = 9 -> "9"

RECURSIVE IntToStr(_)
IntToStr(n) ==
    IF n < 10 THEN <<DigitChar(n)>>
    ELSE IntToStr(n \div 10) \o <<DigitChar(n % 10)>>

\* first pass: has_explicit_headers
has_explicit_headers(lines) ==
    \E i \in 1..Len(lines) : ContainsAny(Strip(Lower(lines[i])), HeaderKeywords)

\* the loop state before the first line
ParseStart ==
    [current_section |-> "None", goal_counter |-> 0, side_goal_counter |-> 0,
     goals |-> <<>>, sideGoals |-> <<>>]

GoalEntryZeroBased(counter, cleaned, prefix) ==
    LET ct == parse_client_from_text(cleaned) IN
    [id |-> counter, title |-> ct[2], client |-> ct[1],
     tag |-> prefix \o IntToStr(counter - 1)]

\* the dictionary appended for an item, counter already advanced
GoalEntry(counter, cleaned, prefix) ==
    LET ct == parse_client_from_text(cleaned) IN
    [id |-> counter, title |-> ct[2], client |-> ct[1],
     tag |-> prefix \o IntToStr(counter)]

\* one iteration of the second loop, on the raw line
ParseLine(st, raw, has_headers, goal_prefix, side_goal_prefix) ==
    LET line == Strip(raw)
        lower_line == Lower(line)
        is_numbered == _is_numbered_item(line)
        is_dash == _is_dash_item(line)
        target_section ==
            IF has_headers THEN st.current_section
            ELSE IF is_numbered THEN "goals"
            ELSE IF is_dash THEN "sideGoals" ELSE "None"
        cleaned == RemoveListMarker(line)
    IN
    IF line = <<>> THEN st
    ELSE IF ContainsAny(lower_line, GoalsKeywords)
         THEN [st EXCEPT !.current_section = "goals"]
    ELSE IF ContainsAny(lower_line, SideGoalsKeywords)
         THEN [st EXCEPT !.current_section = "sideGoals"]
    ELSE IF _is_section_header(line)
         THEN [st EXCEPT !.current_section = "None"]
    ELSE IF ~is_numbered /\ ~is_dash THEN st
    ELSE IF target_section = "None" THEN st
    ELSE IF cleaned = <<>> THEN st
    ELSE IF target_section = "goals"
         THEN [st EXCEPT
                 !.goal_counter = @ + 1,
                 !.goals = Append(@, GoalEntry(st.goal_counter + 1, cleaned,
                                               goal_prefix))]
         ELSE [st EXCEPT
                 !.side_goal_counter = @ + 1,
                 !.sideGoals = Append(@, GoalEntry(st.side_goal_counter + 1,
                                                   cleaned, side_goal_prefix))]

RECURSIVE ParseLines(_, _, _, _, _, _)
ParseLines(st, lines, k, has_headers, goal_prefix, side_goal_prefix) ==
    IF k > Len(lines) THEN st
    ELSE ParseLines(ParseLine(st, lines[k], has_headers, goal_prefix,
                              side_goal_prefix),
                    lines, k + 1, has_headers, goal_prefix, side_goal_prefix)

parse_sprint_description(desc, goal_prefix, side_goal_prefix) ==
    IF desc = <<>> THEN [goals |-> <<>>, sideGoals |-> <<>>]
    ELSE LET lines == Split(Strip(desc), "\n")
             st == ParseLines(ParseStart, lines, 1, has_explicit_headers(lines),
                              goal_prefix, side_goal_prefix)
         IN [goals |-> st.goals, sideGoals |-> st.sideGoals]

DefaultGoalPrefix == <<"c", "e", "l">>
DefaultSideGoalPrefix == <<"e", "x", "t", "r", "a">>

----------------------------------------------------------------------------
(* map_task_to_goal, map_task_to_side_goal, calculate_goal_progress *)

\* re.sub(r'[-_\s]', '', s)
RECURSIVE Normalize(_)
Normalize(s) ==
    IF s = <<>> THEN <<>>
    ELSE (IF Head(s) \in {"-", "_"} \cup Whitespace THEN <<>> ELSE <<Head(s)>>)
         \o Normalize(Tail(s))

\* the values the label loop may return from label k on: the first label
\* that matches decides; when it matches through the normalized comparison
\* the tag returned is the first matching one in the iteration order of a
\* Python set, which is any of the matching tags
RECURSIVE MatchChoices(_, _, _)
MatchChoices(task_labels, tags, k) ==
    IF k > Len(task_labels) THEN {Null}
    ELSE LET label_lower == Lower(task_labels[k])
             normalized == Normalize(label_lower)
             matching == {tag \in tags : normalized = Normalize(tag)}
         IN IF label_lower \in tags THEN {label_lower}
            ELSE IF matching # {} THEN matching
            ELSE MatchChoices(task_labels, tags, k + 1)

\* goals is a sequence of dictionaries with a 'tag'
LowerTags(goals) == {Lower(goals[i].tag) : i \in 1..Len(goals)}

map_task_to_goal(task_labels, goals) ==
    CHOOSE r \in MatchChoices(task_labels, LowerTags(goals), 1) : TRUE

map_task_to_side_goal(task_labels, side_goals) ==
    CHOOSE r \in MatchChoices(task_labels, LowerTags(side_goals), 1) : TRUE

\* sum(1 for t in goal_tasks if t.get('status') == status)
CountStatus(goal_tasks, status) ==
    Cardinality({i \in 1..Len(goal_tasks) : goal_tasks[i].status = status})

\* IEEE 754 double arithmetic on the values (done / total) * 100 takes.  A
\* positive double is [bits |-> the 53 bits of its significand, most
\* significant first, scale |-> t], standing for the integer the bits spell
\* divided by 2^t.
MantissaBits == 53

\* 2^n mod den
RECURSIVE Pow2Mod(_, _)
Pow2Mod(n, den) ==
    IF n = 0 THEN 1 % den
    ELSE (Pow2Mod(n \div 2, den) * Pow2Mod(n \div 2, den)
            * (IF n % 2 = 1 THEN 2 ELSE 1)) % den

\* the remainder left after n bits of the binary expansion of r / den
DivRem(r, den, n) == (Pow2Mod(n, den) * r) % den

\* the first n bits of the binary expansion of r / den, for 0 <= r < den
DivBits(r, den, n) ==
    [i \in 1..n |-> IF 2 * DivRem(r, den, i - 1) >= den THEN 1 ELSE 0]

\* the position of the first 1 in the expansion of r / den, for 0 < r < den
RECURSIVE LeadingBit(_, _)
LeadingBit(r, den) ==
    IF 2 * r >= den THEN 1 ELSE 1 + LeadingBit(2 * r, den)

\* bits + 1, one bit longer when the carry runs out at the top
IncBits(bits) ==
    LET n == Len(bits)
        carry(i) == \A k \in (i + 1)..n : bits[k] = 1
    IN (IF carry(0) THEN <<1>> ELSE <<>>)
       \o [i \in 1..n |-> (bits[i] + (IF carry(i) THEN 1 ELSE 0)) % 2]

\* a + b for bit sequences of equal length, one bit longer than they are;
\* the carry into position i comes from the nearest lower position where
\* both bits are set, when every position between holds exactly one
AddBits(a, b) ==
    LET n == Len(a)
        carry(i) == \E j \in (i + 1)..n :
                        /\ a[j] + b[j] = 2
                        /\ \A k \in (i + 1)..(j - 1) : a[k] + b[k] = 1
        c(i) == IF carry(i) THEN 1 ELSE 0
    IN <<c(0)>> \o [i \in 1..n |-> (a[i] + b[i] + c(i)) % 2]

Zeros(n) == [i \in 1..n |-> 0]

AnyBitSet(bits) == \E i \in 1..Len(bits) : bits[i] = 1

\* bits from its first 1 on
StripLeadingZeros(bits) ==
    LET ones == {i \in 1..Len(bits) : bits[i] = 1}
    IN IF ones = {} THEN <<>>
       ELSE SubSeq(bits, CHOOSE i \in ones : \A j \in ones : i <= j, Len(bits))

\* round to nearest, ties to even: the integer spelled by exact (first bit 1,
\* at least MantissaBits + 1 bits) over 2^scale, with sticky telling that
\* bits below the last one of exact were not zero, as a double
RoundToDouble(exact, scale, sticky) ==
    LET kept == SubSeq(exact, 1, MantissaBits)
        dropped == SubSeq(exact, MantissaBits + 1, Len(exact))
        up == /\ dropped[1] = 1
              /\ \/ AnyBitSet(Tail(dropped))
                 \/ sticky
                 \/ kept[MantissaBits] = 1
        rounded == IF up THEN IncBits(kept) ELSE kept
        t == scale - Len(dropped)
    IN IF Len(rounded) > MantissaBits
       THEN [bits |-> SubSeq(rounded, 1, MantissaBits), scale |-> t - 1]
       ELSE [bits |-> rounded, scale |-> t]

\* num / den for 0 < num < den
FloatDiv(num, den) ==
    LET k == LeadingBit(num, den)
        n == k + MantissaBits
    IN RoundToDouble(SubSeq(DivBits(num, den, n), k, n), n,
                     DivRem(num, den, n) # 0)

\* x * 100: 100 x = 64 x + 32 x + 4 x
FloatTimes100(x) ==
    LET m == x.bits
        a == <<0>> \o m \o Zeros(6)
        b == <<0, 0>> \o m \o Zeros(5)
        c == <<0, 0, 0, 0, 0>> \o m \o Zeros(2)
        product == StripLeadingZeros(AddBits(Tail(AddBits(a, b)), c))
    IN RoundToDouble(product, x.scale, FALSE)

\* the integer a short bit sequence spells
RECURSIVE BitsToInt(_)
BitsToInt(bits) ==
    IF bits = <<>> THEN 0
    ELSE 2 * BitsToInt(SubSeq(bits, 1, Len(bits) - 1)) + bits[Len(bits)]

\* round(x) of a double 0 < x < 128: the nearest integer, a tie going to the
\* even one
RoundDouble(x) ==
    LET intLen == MantissaBits - x.scale
        whole == IF intLen > 0 THEN BitsToInt(SubSeq(x.bits, 1, intLen)) ELSE 0
        frac == IF intLen >= 0 THEN SubSeq(x.bits, intLen + 1, MantissaBits)
                ELSE <<0>> \o x.bits
        above == frac[1] = 1 /\ AnyBitSet(Tail(frac))
        tie == frac[1] = 1 /\ ~AnyBitSet(Tail(frac))
    IN IF above \/ (tie /\ whole % 2 = 1) THEN whole + 1 ELSE whole

RoundPercentTruncated(num, den) == (100 * num) \div den

\* round((num / den) * 100) for 0 <= num <= den, den > 0, in doubles
RoundPercent(num, den) ==
    IF num = 0 THEN 0
    ELSE IF num = den THEN 100
    ELSE RoundDouble(FloatTimes100(FloatDiv(num, den)))

calculate_goal_progress(goal_tasks) ==
    IF goal_tasks = <<>>
    THEN [done |-> 0, inProgress |-> 0, todo |-> 0, total |-> 0, percent |-> 0]
    ELSE LET total == Len(goal_tasks)
             done == CountStatus(goal_tasks, "Done")
             in_progress == CountStatus(goal_tasks, "In Progress")
         IN [done |-> done, inProgress |-> in_progress,
             todo |-> total - done - in_progress, total |-> total,
             percent |-> RoundPercent(done, total)]

----------------------------------------------------------------------------
(* map_jira_status *)

\* a key that a dictionary does not hold, where a string is expected and
\* where a dictionary is expected
Absent == <<"absent">>
AbsentDict == [kind |-> "absent"]

STATUS_CATEGORY_MAP ==
    {<<<<"d", "o", "n", "e">>, "Done">>,
     <<<<"i", "n", "d", "e", "t", "e", "r", "m", "i", "n", "a", "t", "e">>, "In Progress">>,
     <<<<"n", "e", "w">>, "To Do">>}

STATUS_NAME_FALLBACK ==
    {<<<<"d", "o", "n", "e">>, "Done">>,
     <<<<"g", "o", "t", "o", "w", "e">>, "Done">>,
     <<<<"c", "l", "o", "s", "e", "d">>, "Done">>,
     <<<<"z", "a", "m", "k", "n", "i", "e_ogonek", "t", "e">>, "Done">>,
     <<<<"z", "a", "m", "k", "n", "i", "e", "t", "e">>, "Done">>,
     <<<<"r", "e", "s", "o", "l", "v", "e", "d">>, "Done">>,
     <<<<"r", "o", "z", "w", "i", "a_ogonek", "z", "a", "n", "e">>, "Done">>,
     <<<<"r", "o", "z", "w", "i", "a", "z", "a", "n", "e">>, "Done">>,
     <<<<"c", "o", "m", "p", "l", "e", "t", "e">>, "Done">>,
     <<<<"c", "o", "m", "p", "l", "e", "t", "e", "d">>, "Done">>,
     <<<<"z", "a", "k", "o", "n_acute", "c", "z", "o", "n", "e">>, "Done">>,
     <<<<"z", "a", "k", "o", "n", "c", "z", "o", "n", "e">>, "Done">>,
     <<<<"i", "n", " ", "p", "r", "o", "g", "r", "e", "s", "s">>, "In Progress">>,
     <<<<"w", " ", "t", "r", "a", "k", "c", "i", "e">>, "In Progress">>,
     <<<<"w", " ", "t", "o", "k", "u">>, "In Progress">>,
     <<<<"i", "n", " ", "d", "e", "v", "e", "l", "o", "p", "m", "e", "n", "t">>, "In Progress">>,
     <<<<"i", "n", " ", "r", "e", "v", "i", "e", "w">>, "In Progress">>,
     <<<<"r", "e", "v", "i", "e", "w">>, "In Progress">>,
     <<<<"t", "e", "s", "t", "i", "n", "g">>, "In Progress">>,
     <<<<"t", "e", "s", "t", "o", "w", "a", "n", "i", "e">>, "In Progress">>,
     <<<<"i", "n", " ", "t", "e", "s", "t", "i", "n", "g">>, "In Progress">>,
     <<<<"c", "o", "d", "e", " ", "r", "e", "v", "i", "e", "w">>, "In Progress">>,
     <<<<"p", "r", "z", "e", "g", "l", "a_ogonek", "d", " ", "k", "o", "d", "u">>, "In Progress">>,
     <<<<"p", "r", "z", "e", "g", "l", "a", "d", " ", "k", "o", "d", "u">>, "In Progress">>,
     <<<<"t", "o", " ", "d", "o">>, "To Do">>,
     <<<<"d", "o", " ", "z", "r", "o", "b", "i", "e", "n", "i", "a">>, "To Do">>,
     <<<<"b", "a", "c", "k", "l", "o", "g">>, "To Do">>,
     <<<<"o", "p", "e", "n">>, "To Do">>,
     <<<<"n", "e", "w">>, "To Do">>,
     <<<<"n", "o", "w", "e">>, "To Do">>,
     <<<<"o", "t", "w", "a", "r", "t", "e">>, "To Do">>,
     <<<<"s", "e", "l", "e", "c", "t", "e", "d", " ", "f", "o", "r", " ", "d", "e", "v", "e", "l", "o", "p", "m", "e", "n", "t">>, "To Do">>,
     <<<<"r", "e", "a", "d", "y">>, "To Do">>,
     <<<<"g", "o", "t", "o", "w", "e", " ", "d", "o", " ", "r", "e", "a", "l", "i", "z", "a", "c", "j", "i">>, "To Do">>}

\* key in table
InTable(table, key) == \E row \in table : row[1] = key

\* table[key]
Lookup(table, key) == (CHOOSE row \in table : row[1] = key)[2]

\* dict.get(key, '') of a string entry
GetOrEmpty(value) == IF value = Absent THEN <<>> ELSE value

CategoryKeyRaw(status_category) == GetOrEmpty(status_category.key)

\* status_category.get('key', '').lower()
CategoryKey(status_category) == Lower(GetOrEmpty(status_category.key))

NameKeyUnstripped(status_name) == Lower(status_name)

\* status_name.lower().strip()
NameKey(status_name) == Strip(Lower(status_name))

\* the status field is None (NoRecord) or a dictionary that may hold 'name'
\* and 'statusCategory'; an empty dictionary holds neither
map_jira_status(field) ==
    IF field = NoRecord \/ (field.name = Absent /\ field.statusCategory = AbsentDict)
    THEN "To Do"
    ELSE LET status_category == field.statusCategory
             status_name == GetOrEmpty(field.name)
         IN IF /\ status_category # AbsentDict
               /\ status_category # NoRecord
               /\ status_category.key # Absent
               /\ InTable(STATUS_CATEGORY_MAP, CategoryKey(status_category))
            THEN Lookup(STATUS_CATEGORY_MAP, CategoryKey(status_category))
            ELSE IF /\ status_name # <<>>
                    /\ InTable(STATUS_NAME_FALLBACK, NameKey(status_name))
                 THEN Lookup(STATUS_NAME_FALLBACK, NameKey(status_name))
                 ELSE "To Do"

----------------------------------------------------------------------------
(* build_sprint_data *)

\* the keys of the tasks, in task order, for which the mapper returns the
\* declaration's own tag
GoalTaskKeys(tsks, goal_data) ==
    LET Mapped(task) ==
            map_task_to_goal(task.labels, <<goal_data>>) = goal_data.tag
        matched == SelectSeq(tsks, Mapped)
    IN [i \in 1..Len(matched) |-> matched[i].key]

SideGoalTaskKeys(tsks, sg_data) ==
    LET Mapped(task) ==
            map_task_to_side_goal(task.labels, <<sg_data>>) = sg_data.tag
        matched == SelectSeq(tsks, Mapped)
    IN [i \in 1..Len(matched) |-> matched[i].key]

\* [t for t in tasks if t['key'] in keys]
TasksWithKeys(tsks, keys) ==
    LET Listed(task) == \E i \in 1..Len(keys) : keys[i] = task.key
    IN SelectSeq(tsks, Listed)

\* next((g for g in entries if g['id'] == id), None), as an index; 0 for None
RECURSIVE FirstWithId(_, _, _)
FirstWithId(entries, id, k) ==
    IF k > Len(entries) THEN 0
    ELSE IF entries[k].id = id THEN k ELSE FirstWithId(entries, id, k + 1)

ExistingCommentsSwapped(existing, section, id) ==
    LET other == IF section = "goals" THEN "sideGoals" ELSE "goals"
        k == IF existing = NoRecord THEN 0
             ELSE FirstWithId(existing[other], id, 1)
    IN IF k = 0 THEN <<>> ELSE existing[other][k].comments

\* existing_comments for the declaration with this id of this section
ExistingComments(existing, section, id) ==
    LET k == IF existing = NoRecord THEN 0
             ELSE FirstWithId(existing[section], id, 1)
    IN IF k = 0 THEN <<>> ELSE existing[section][k].comments

GoalRecord(decl, keys, progress, comments) ==
    [id |-> decl.id, title |-> decl.title, client |-> decl.client,
     tag |-> decl.tag, completed |-> (progress.percent = 100),
     completionPercent |-> progress.percent,
     taskStats |-> [done |-> progress.done, inProgress |-> progress.inProgress,
                    todo |-> progress.todo, total |-> progress.total],
     tasks |-> keys, comments |-> comments]

BuildGoals(parsed_goals, tsks, existing) ==
    [n \in 1..Len(parsed_goals) |->
        LET goal_data == parsed_goals[n]
            goal_tasks == GoalTaskKeys(tsks, goal_data)
        IN GoalRecord(goal_data, goal_tasks,
                      calculate_goal_progress(TasksWithKeys(tsks, goal_tasks)),
                      ExistingComments(existing, "goals", goal_data.id))]

BuildSideGoals(parsed_side, tsks, existing) ==
    [n \in 1..Len(parsed_side) |->
        LET sg_data == parsed_side[n]
            sg_tasks == SideGoalTaskKeys(tsks, sg_data)
        IN GoalRecord(sg_data, sg_tasks,
                      calculate_goal_progress(TasksWithKeys(tsks, sg_tasks)),
                      ExistingComments(existing, "sideGoals", sg_data.id))]

\* date.split('T')[0] when the date is not empty
DatePortion(date) ==
    IF date = <<>> THEN <<>> ELSE Split(date, "T")[1]

StateClosed == <<"c", "l", "o", "s", "e", "d">>
StateActive == <<"a", "c", "t", "i", "v", "e">>
StateFuture == <<"f", "u", "t", "u", "r", "e">>

\* 'closed' if sprint.get('state', '').lower() == 'closed' else 'active'
StatusOf(sprnt) == IF Lower(sprnt.state) = StateClosed THEN "closed" ELSE "active"

CarriedFieldsSwapped(existing) ==
    IF existing = NoRecord
    THEN [achievements |-> "", nextSprintPlans |-> "", closedAt |-> "null"]
    ELSE [achievements |-> existing.nextSprintPlans,
          nextSprintPlans |-> existing.achievements,
          closedAt |-> existing.closedAt]

\* the editable fields taken over from the existing record
CarriedFields(existing) ==
    IF existing = NoRecord
    THEN [achievements |-> "", nextSprintPlans |-> "", closedAt |-> "null"]
    ELSE [achievements |-> existing.achievements,
          nextSprintPlans |-> existing.nextSprintPlans,
          closedAt |-> existing.closedAt]

build_sprint_data(sprnt, tsks, existing, goal_prefix, side_goal_prefix) ==
    LET parsed == parse_sprint_description(sprnt.goal, goal_prefix,
                                           side_goal_prefix)
        carried == CarriedFields(existing)
    IN [kind |-> "stored",
        id |-> sprnt.id,
        name |-> IF sprnt.name = Null
                 THEN <<"S", "p", "r", "i", "n", "t", " ">> \o IntToStr(sprnt.id)
                 ELSE sprnt.name,
        status |-> StatusOf(sprnt),
        startDate |-> DatePortion(sprnt.startDate),
        endDate |-> DatePortion(sprnt.endDate),
        goals |-> BuildGoals(parsed.goals, tsks, existing),
        sideGoals |-> BuildSideGoals(parsed.sideGoals, tsks, existing),
        achievements |-> carried.achievements,
        tasks |-> tsks,
        nextSprintPlans |-> carried.nextSprintPlans,
        jiraBaseUrl |-> "JIRA_URL",
        jiraTimelineUrl |-> "JIRA_URL/timeline",
        closedAt |-> carried.closedAt]

----------------------------------------------------------------------------
(* Spec: runs of one orchestrator against the tracker and the store.        *)
(* variant "local" is sync_jira.main (JSON files in the data directory),     *)
(* variant "repo" is sync_jira_to_repo.main (GitHub Contents API).  The      *)
(* store holds the record of one sprint and the current-sprint pointer; the  *)
(* review UI edits the stored record between the steps of a run.             *)

MaxComments == 1

NameS1 == <<"S", "1">>
GoalTextA == <<"1", ".", " ", "a", "\n", "-", " ", "c">>
GoalTextB == <<"1", ".", " ", "a", "\n", "2", ")", " ", "[", "K", "]", " ", "b", "\n", "-", " ", "c">>
GoalTextC == <<"2", ")", " ", "[", "K", "]", " ", "b">>
DateTimeStart == <<"0", "5", "T", "0", "8">>
DateStart == <<"0", "5">>
DateTimeEnd == <<"1", "9", "T", "1", "7">>
LabelCel1 == <<"c", "e", "l", "1">>
LabelExtraDash1 == <<"E", "x", "t", "r", "a", "-", "1">>

RawSprint(goal, state, startDate, endDate) ==
    [kind |-> "sprint", id |-> 1, name |-> NameS1, goal |-> goal,
     state |-> state, startDate |-> startDate, endDate |-> endDate]

\* what the tracker may return for the sprint
RawSprints ==
    {RawSprint(GoalTextA, StateActive, DateTimeStart, <<>>),
     RawSprint(GoalTextB, StateActive, DateStart, DateTimeEnd),
     RawSprint(GoalTextC, StateClosed, DateStart, DateTimeEnd),
     RawSprint(<<>>, StateFuture, <<>>, <<>>)}

TaskK1 == [key |-> "K1", status |-> "Done", labels |-> <<LabelCel1>>]
TaskK2 == [key |-> "K2", status |-> "In Progress", labels |-> <<LabelExtraDash1>>]

\* the task lists a run may obtain from the sprint's issues
TaskLists == {<<>>, <<TaskK1, TaskK2>>}

\* what the review UI may write
CommentTexts == {"note"}
AchievementsTexts == {"ach"}
PlansTexts == {"plan"}

\* a stored file that does not hold JSON
BadFile == [kind |-> "bad"]

\* the blob sha of a stored file: it is a function of the content
Sha(content) == [kind |-> "sha", of |-> content]

\* RepoClient.get_file: None on 404, on a transport error and on bad JSON
get_file(stored, transportOk) ==
    IF ~transportOk \/ stored = NoRecord \/ stored = BadFile THEN NoRecord
    ELSE [kind |-> "file", content |-> stored, sha |-> Sha(stored)]

\* load_existing_sprint: None when the file is missing; json.load raises on
\* a file that does not hold JSON
load_existing_sprint(stored) ==
    IF stored = BadFile THEN [kind |-> "raised"] ELSE stored

\* the Contents API answer to the PUT of update_file: a path that holds no
\* file is created; a path that holds a file is replaced only when the
\* request carries the blob sha of the file as stored
PutAccepted(stored, sha) ==
    IF stored = NoRecord THEN TRUE ELSE sha = Sha(stored)

SaveShaRefetched(loadedSha, stored) == Sha(stored)

\* the sha argument of the update_file call that saves the sprint record
SaveSha(loadedSha, stored) == loadedSha

FreezeGateCapitalised(existing) ==
    existing # NoRecord /\ existing.status = "Closed"

\* existing_data and existing_data.get('status') == 'closed'
FreezeGate(existing) ==
    existing # NoRecord /\ existing.status = "closed"

\* the ids of the sprints of the board
MaxSprints == 2
SprintIds == 1..MaxSprints

\* the files sprint-<id>.json of the store, none of them written yet
NoFiles == [i \in SprintIds |-> NoRecord]

ConfiguredGoalPrefix == <<"g", "o", "a", "l">>
ConfiguredSideGoalPrefix == <<"s", "i", "d", "e">>

\* the label prefixes main takes from config.json: the defaults when the
\* file or the keys are missing, or the configured pair
Configs ==
    {<<DefaultGoalPrefix, DefaultSideGoalPrefix>>,
     <<ConfiguredGoalPrefix, ConfiguredSideGoalPrefix>>}

Init ==
    /\ variant \in {"local", "repo"}
    /\ pc = "idle"
    /\ exitCode = -1
    /\ sprint = NoRecord
    /\ tasks = <<>>
    /\ existing_data = NoRecord
    /\ existing_sha = NoRecord
    /\ sprint_data = NoRecord
    /\ store = NoRecord
    /\ pointer = NoRecord
    /\ loadedStore = NoRecord
    /\ writes = 0
    /\ buildCalls = 0
    /\ saveResult = "none"
    /\ sprint_files = NoFiles
    /\ description = <<>>
    /\ result = NoRecord
    /\ text = <<>>
    /\ client_title = <<>>
    /\ FunctionsIdle

\* the process ends with this exit status; its locals are gone
Exit(code) ==
    /\ pc' = "done"
    /\ exitCode' = code
    /\ sprint' = NoRecord
    /\ tasks' = <<>>
    /\ existing_sha' = NoRecord
    /\ sprint_data' = NoRecord
    /\ loadedStore' = NoRecord

\* main up to the list of tasks: the connection check of the repository
\* variant, the sprint fetch (by --sprint-id or the active sprint), the
\* issues and their transformation
StartRun(withSprintId, connected, raw, tsks) ==
    /\ pc \in {"idle", "done"}
    /\ variant = "local" => connected
    /\ (raw # NoRecord /\ ~withSprintId) => raw.state = StateActive
    /\ (~connected \/ raw = NoRecord) => tsks = <<>>
    /\ existing_data' = NoRecord
    /\ writes' = 0
    /\ buildCalls' = 0
    /\ saveResult' = "none"
    /\ IF ~connected THEN Exit(1)
       ELSE IF raw = NoRecord THEN Exit(IF withSprintId THEN 1 ELSE 0)
       ELSE /\ pc' = "fetched"
            /\ exitCode' = -1
            /\ sprint' = raw
            /\ tasks' = tsks
            /\ existing_sha' = NoRecord
            /\ sprint_data' = NoRecord
            /\ loadedStore' = NoRecord
    /\ UNCHANGED <<variant, store, pointer, sprint_files, varsParse,
                   varsClient, varsFunctions>>

\* main from the load of the existing record to the built record: the
\* load, the freeze gate, load_config (local) and build_sprint_data
LoadExisting(transportOk, config) ==
    /\ pc = "fetched"
    /\ variant = "local" => transportOk
    /\ LET loaded == IF variant = "local" THEN load_existing_sprint(store)
                     ELSE get_file(store, transportOk)
           existing == IF variant = "local" \/ loaded = NoRecord THEN loaded
                       ELSE loaded.content
           sha == IF variant = "local" \/ loaded = NoRecord THEN NoRecord
                  ELSE loaded.sha
       IN IF loaded = [kind |-> "raised"]
          THEN /\ Exit(1)
               /\ UNCHANGED <<existing_data, buildCalls>>
          ELSE /\ existing_data' = existing
               /\ IF FreezeGate(existing)
                  THEN Exit(0) /\ UNCHANGED buildCalls
                  ELSE /\ sprint_data' =
                            IF variant = "local"
                            THEN build_sprint_data(sprint, tasks, existing,
                                                   config[1], config[2])
                            ELSE build_sprint_data(sprint, tasks, existing,
                                                   DefaultGoalPrefix,
                                                   DefaultSideGoalPrefix)
                       /\ buildCalls' = buildCalls + 1
                       /\ existing_sha' = sha
                       /\ loadedStore' = store
                       /\ pc' = "built"
                       /\ UNCHANGED <<exitCode, sprint, tasks>>
    /\ UNCHANGED <<variant, store, pointer, writes, saveResult, sprint_files,
                   varsParse,
                   varsClient, varsFunctions>>

\* the save of the sprint record: save_sprint_data (local) or update_file
\* with the sha of the load (repo), whose failure ends the run with status 1
SaveRecord(transportOk) ==
    /\ pc = "built"
    /\ variant = "local" => transportOk
    /\ IF variant = "local"
          \/ (transportOk /\ PutAccepted(store, SaveSha(existing_sha, store)))
       THEN /\ store' = sprint_data
            /\ writes' = writes + 1
            /\ saveResult' = "saved"
            /\ pc' = "saved"
            /\ UNCHANGED <<exitCode, sprint, tasks, existing_sha, sprint_data,
                           loadedStore>>
       ELSE /\ saveResult' = IF transportOk THEN "rejected" ELSE "failed"
            /\ Exit(1)
            /\ UNCHANGED <<store, writes>>
    /\ UNCHANGED <<variant, existing_data, pointer, buildCalls, sprint_files,
                   varsParse,
                   varsClient, varsFunctions>>

PointerForExactCase(sprnt) ==
    [kind |-> "pointer", currentSprintId |-> sprnt.id,
     isActive |-> (sprnt.state = StateActive)]

\* is_active = sprint.get('state', '').lower() == 'active'
PointerFor(sprnt) ==
    [kind |-> "pointer", currentSprintId |-> sprnt.id,
     isActive |-> (Lower(sprnt.state) = StateActive)]

\* the write of current-sprint.json: update_current_sprint (local), or
\* get_file for its sha and update_file (repo)
UpdatePointer(getOk, putOk) ==
    /\ pc = "saved"
    /\ variant = "local" => (getOk /\ putOk)
    /\ LET current_file == get_file(pointer, getOk)
           current_sha == IF current_file = NoRecord THEN NoRecord
                          ELSE current_file.sha
       IN IF variant = "local" \/ (putOk /\ PutAccepted(pointer, current_sha))
          THEN /\ pointer' = PointerFor(sprint)
               /\ writes' = writes + 1
               /\ Exit(0)
          ELSE /\ Exit(1)
               /\ UNCHANGED <<pointer, writes>>
    /\ UNCHANGED <<variant, existing_data, store, buildCalls, saveResult,
                   sprint_files,
                   varsParse, varsClient,
                   varsFunctions>>

UIFrame ==
    UNCHANGED <<variant, pc, exitCode, sprint, tasks, existing_data,
                existing_sha, sprint_data, pointer, loadedStore, writes,
                buildCalls, saveResult, sprint_files, varsParse, varsClient,
                   varsFunctions>>

\* the review UI adds a comment to a goal or side goal of the stored record
UIAddComment(section, k, comment) ==
    /\ store.kind = "stored"
    /\ k \in 1..Len(store[section])
    /\ Len(store[section][k].comments) < MaxComments
    /\ store' = [store EXCEPT ![section][k].comments = Append(@, comment)]
    /\ UIFrame

\* the review UI saves the achievements and nextSprintPlans texts
UIEditTexts(achievements, plans) ==
    /\ store.kind = "stored"
    /\ store' = [store EXCEPT !.achievements = achievements,
                              !.nextSprintPlans = plans]
    /\ store' # store
    /\ UIFrame

\* the review UI closes the sprint
UICloseSprint ==
    /\ store.kind = "stored"
    /\ store.status = "active"
    /\ store' = [store EXCEPT !.status = "closed", !.closedAt = "ts"]
    /\ UIFrame

\* the stored file is damaged outside the scripts (a manual edit)
StoreCorrupted ==
    /\ store.kind = "stored"
    /\ store' = BadFile
    /\ UIFrame

Next ==
    \/ \E withSprintId \in BOOLEAN, connected \in BOOLEAN,
          raw \in RawSprints \cup {NoRecord}, tsks \in TaskLists :
            StartRun(withSprintId, connected, raw, tsks)
    \/ \E transportOk \in BOOLEAN, config \in Configs :
            LoadExisting(transportOk, config)
    \/ \E transportOk \in BOOLEAN : SaveRecord(transportOk)
    \/ \E getOk \in BOOLEAN, putOk \in BOOLEAN : UpdatePointer(getOk, putOk)
    \/ \E section \in {"goals", "sideGoals"}, k \in 1..2,
          comment \in CommentTexts : UIAddComment(section, k, comment)
    \/ \E achievements \in AchievementsTexts, plans \in PlansTexts :
            UIEditTexts(achievements, plans)
    \/ UICloseSprint
    \/ StoreCorrupted

Spec == Init /\ [][Next]_vars

----------------------------------------------------------------------------
(* Properties of the runs *)

\* C1: a run whose loaded record has status "closed" never calls
\* build_sprint_data, writes neither the sprint record nor the pointer, and
\* ends with exit status 0.
FreezeGateIsNoOp ==
    (existing_data # NoRecord /\ existing_data.status = "closed") =>
        /\ pc = "done"
        /\ exitCode = 0
        /\ buildCalls = 0
        /\ writes = 0
        /\ saveResult = "none"

\* C1 witness: the repository variant has loaded a closed record and ended
FreezeGateTaken ==
    /\ variant = "repo"
    /\ existing_data # NoRecord
    /\ existing_data.status = "closed"
    /\ pc = "done"
    /\ exitCode = 0

WithoutComments(entries) ==
    [n \in 1..Len(entries) |-> [entries[n] EXCEPT !.comments = <<>>]]

\* what the freeze protects in a stored record
FrozenPart(rec) ==
    [goals |-> WithoutComments(rec.goals),
     sideGoals |-> WithoutComments(rec.sideGoals),
     tasks |-> rec.tasks, startDate |-> rec.startDate, endDate |-> rec.endDate]

\* C2 as claimed: once the stored record is closed, no write of a run
\* changes its goals, sideGoals, tasks, startDate or endDate, whatever the
\* read returned and whoever wrote between the run's load and its save.
ClosedRecordStaysFrozen ==
    [][(store.kind = "stored" /\ store.status = "closed" /\ writes' > writes)
         => (store'.kind = "stored" /\ FrozenPart(store') = FrozenPart(store))
      ]_vars

RECURSIVE AllComments(_)
AllComments(entries) ==
    IF entries = <<>> THEN <<>>
    ELSE Head(entries).comments \o AllComments(Tail(entries))

CommentsOf(rec) == AllComments(rec.goals) \o AllComments(rec.sideGoals)

Occurrences(c, comments) ==
    Cardinality({i \in 1..Len(comments) : comments[i] = c})

\* C3 as claimed: every comment stored on a goal or side goal of the
\* existing record is still on some goal or side goal of the built record.
CommentsNeverClobbered ==
    (pc = "built" /\ existing_data # NoRecord) =>
        \A c \in CommentTexts :
            Occurrences(c, CommentsOf(existing_data))
                <= Occurrences(c, CommentsOf(sprint_data))

\* the comments of the entry with this id, the empty list without one
CommentsById(entries, id) ==
    LET ks == {k \in 1..Len(entries) : entries[k].id = id}
    IN IF ks = {} THEN <<>> ELSE entries[CHOOSE k \in ks : TRUE].comments

\* C4: each rebuilt goal (side goal) carries the comments of the existing
\* goal (side goal) with the same id, and no comments when there is no
\* existing record or no entry with that id; goals are matched against
\* goals only and side goals against side goals only.
CommentsMergedById ==
    pc \in {"built", "saved"} =>
        \A section \in {"goals", "sideGoals"} :
            \A n \in 1..Len(sprint_data[section]) :
                sprint_data[section][n].comments =
                    IF existing_data = NoRecord THEN <<>>
                    ELSE CommentsById(existing_data[section],
                                      sprint_data[section][n].id)

\* C4 witness: goal 1 takes over its comment, goal 2 is new, the side goal
\* has none while goal 1 of the existing record has one
CommentsMergedCase ==
    /\ pc = "built"
    /\ existing_data # NoRecord
    /\ Len(existing_data.goals) = 1
    /\ existing_data.goals[1].comments = <<"note">>
    /\ Len(existing_data.sideGoals) = 1
    /\ existing_data.sideGoals[1].comments = <<>>
    /\ Len(sprint_data.goals) = 2
    /\ sprint_data.goals[1].comments = <<"note">>
    /\ sprint_data.goals[2].comments = <<>>
    /\ sprint_data.sideGoals[1].comments = <<>>

ConflictingSaveRejected ==
    [][(variant = "repo" /\ pc = "built" /\ pc' # "built"
          /\ store # loadedStore)
         => (store' = store /\ pc' = "done" /\ exitCode' = 1
               /\ saveResult' \in {"rejected", "failed"})
      ]_vars

\* C6 witness: the record was loaded, and the save with its sha was refused
SaveRefusedAfterLoad ==
    /\ variant = "repo"
    /\ pc = "done"
    /\ exitCode = 1
    /\ saveResult = "rejected"
    /\ existing_data # NoRecord
    /\ store # existing_data

\* C16 as claimed: a run that ends before a sprint was fetched (a step
\* of main from its start to its end that is no write of the UI) has built
\* and written nothing, holds no tasks, and ends with a status other than 0.
SprintFetchFailureIsFatal ==
    [][(pc \in {"idle", "done"} /\ pc' = "done" /\ store' = store)
         => (/\ exitCode' # 0
             /\ tasks' = <<>>
             /\ buildCalls' = 0
             /\ writes' = 0
             /\ pointer' = pointer)
      ]_vars

\* C17 as claimed: when the stored record does not hold JSON, the load is
\* followed by the build with no existing record (no comments, empty texts,
\* closedAt null), and the save that follows, unless the transport fails,
\* stores the built record.
BadJsonTreatedAsNoRecord ==
    [][/\ (store = BadFile /\ pc = "fetched" /\ pc' # "fetched")
            => /\ pc' = "built"
               /\ existing_data' = NoRecord
               /\ CommentsOf(sprint_data') = <<>>
               /\ sprint_data'.achievements = ""
               /\ sprint_data'.nextSprintPlans = ""
               /\ sprint_data'.closedAt = "null"
       /\ (store = BadFile /\ loadedStore = BadFile /\ pc = "built"
             /\ pc' # "built" /\ saveResult' # "failed")
            => /\ pc' = "saved"
               /\ store' = sprint_data
      ]_vars

\* C23 as claimed: from the same fetched sprint, tasks and existing record,
\* and whatever prefixes config.json holds, the two orchestrators build the
\* same record: the record a run builds is the one sync_jira_to_repo.main
\* builds and the one sync_jira.main builds under every configuration.
OrchestratorsBuildSameRecord ==
    [][(pc = "fetched" /\ pc' = "built") =>
          /\ sprint_data' = build_sprint_data(sprint, tasks, existing_data',
                                              DefaultGoalPrefix,
                                              DefaultSideGoalPrefix)
          /\ \A config \in Configs :
                sprint_data' = build_sprint_data(sprint, tasks, existing_data',
                                                 config[1], config[2])]_vars

----------------------------------------------------------------------------
(* The orchestrators at rest, for the specifications of the pure functions *)

MainIdle ==
    /\ variant = "local"
    /\ pc = "idle"
    /\ exitCode = -1
    /\ sprint = NoRecord
    /\ tasks = <<>>
    /\ existing_data = NoRecord
    /\ existing_sha = NoRecord
    /\ sprint_data = NoRecord
    /\ store = NoRecord
    /\ pointer = NoRecord
    /\ loadedStore = NoRecord
    /\ writes = 0
    /\ buildCalls = 0
    /\ saveResult = "none"
    /\ sprint_files = NoFiles

----------------------------------------------------------------------------
(* SpecClient: parse_client_from_text applied to every short text *)

MaxTextLen == 7

ClientAlphabet == {"[", "]", " ", "a", "K"}

Texts == UNION {[1..n -> ClientAlphabet] : n \in 0..MaxTextLen}

Unset == <<>>

InitClient ==
    /\ text \in Texts
    /\ client_title = Unset
    /\ description = <<>>
    /\ result = NoRecord
    /\ MainIdle
    /\ FunctionsIdle

ParseClient ==
    /\ client_title = Unset
    /\ client_title' = parse_client_from_text(text)
    /\ UNCHANGED <<text, varsParse, varsMain, varsFunctions>>

NextClient == ParseClient

SpecClient == InitClient /\ [][NextClient]_vars

NoBrackets(s) == \A i \in 1..Len(s) : s[i] \notin {"[", "]"}

\* a client name or a run of title words: not empty, no brackets, trimmed
Plain(s) == s # <<>> /\ NoBrackets(s) /\ Strip(s) = s

\* C9: a text "[A] text", "text [A]" or "te [A] xt" (A a client name, text,
\* te and xt title words) yields client A and, as title, the words with the
\* tag removed and exactly one space where the tag stood between words, with
\* no leading or trailing space.
ClientTagPositionIndependent ==
    client_title # Unset =>
        \A i \in 1..Len(text) : \A j \in (i + 2)..Len(text) :
            LET A == SubSeq(text, i + 1, j - 1)
                before == SubSeq(text, 1, i - 1)
                after == SubSeq(text, j + 1, Len(text))
                te == SubSeq(text, 1, i - 2)
                xt == SubSeq(text, j + 2, Len(text))
                atStart == before = <<>> /\ after = <<" ">> \o xt /\ Plain(xt)
                atEnd == after = <<>> /\ before = te \o <<" ">> /\ Plain(te)
                inMiddle == /\ before = te \o <<" ">> /\ Plain(te)
                            /\ after = <<" ">> \o xt /\ Plain(xt)
            IN (text[i] = "[" /\ text[j] = "]" /\ Plain(A)) =>
                 /\ atStart => client_title = <<A, xt>>
                 /\ atEnd => client_title = <<A, te>>
                 /\ inMiddle => client_title = <<A, te \o <<" ">> \o xt>>

\* C9 witness: the tag stands in the middle of the text
ClientTagInMiddleParsed ==
    /\ text = <<"a", " ", "[", "K", "]", " ", "a">>
    /\ client_title = <<<<"K">>, <<"a", " ", "a">>>>

\* the text with the one bracketed substring at i..j replaced by a space
FirstTagRemoved(t, i, j) ==
    Strip(SubSeq(t, 1, SkipWsBack(t, i - 1)) \o <<" ">>
          \o SubSeq(t, SkipWs(t, j + 1), Len(t)))

\* C10 as claimed: client is the content of the first bracketed substring and
\* title is the text with that one substring removed, later bracketed
\* substrings staying in the title; without brackets client is null and title
\* the trimmed text.
OnlyFirstTagRemoved ==
    client_title # Unset =>
        LET t == Strip(text)
            m == SearchBracket(t, 1)
        IN IF m[1] = 0 THEN client_title = <<Null, t>>
           ELSE client_title = <<Strip(SubSeq(t, m[1] + 1, m[2] - 1)),
                                 FirstTagRemoved(t, m[1], m[2])>>

----------------------------------------------------------------------------
(* SpecParse: parse_sprint_description applied to short descriptions *)

MaxLines == 3

LnGoalA == <<"1", ".", " ", "a">>
LnGoalClientB == <<"2", ")", " ", "[", "K", "]", " ", "b">>
LnSideC == <<"-", " ", "c">>
LnSideClientD == <<"*", " ", "d", " ", "[", "K", "]">>
LnHeaderGoals == <<"#", "#", " ", "S", "p", "r", "i", "n", "t", " ", "G", "o", "a", "l", "s">>
LnHeaderSide == <<"#", "#", " ", "s", "i", "d", "e", " ", "g", "o", "a", "l", "s">>
LnHeaderOther == <<"#", "#", " ", "O", "t", "h", "e", "r">>
LnGoalPoboczny == <<"3", ".", " ", "p", "o", "b", "o", "c", "z", "n", "y", " ", "x">>
LnEmptyItem == <<"1", ".">>
LnBlank == <<>>
LnNote == <<"n", "o", "t", "e">>
LnIndented == <<" ", " ", "4", " ", "e">>
LnGoalSprintGoals == <<"5", ".", " ", "s", "p", "r", "i", "n", "t", " ", "g", "o", "a", "l", "s">>

LinePalette ==
    {LnGoalA, LnGoalClientB, LnSideC, LnSideClientD, LnHeaderGoals,
     LnHeaderSide, LnHeaderOther, LnGoalPoboczny, LnEmptyItem, LnBlank, LnNote,
     LnIndented, LnGoalSprintGoals}

\* '\n'.join(lines)
RECURSIVE JoinLines(_)
JoinLines(ls) ==
    IF ls = <<>> THEN <<>>
    ELSE IF Len(ls) = 1 THEN ls[1]
    ELSE ls[1] \o <<"\n">> \o JoinLines(Tail(ls))

Descriptions ==
    {JoinLines(ls) : ls \in UNION {[1..n -> LinePalette] : n \in 0..MaxLines}}

CapitalGoalPrefix == <<"C", "e", "l">>
CapitalSideGoalPrefix == <<"E", "x", "t", "r", "a", "-">>
PrefixG == <<"G">>

\* the prefix arguments of the call: the defaults, a configured pair, and one
\* prefix used for both sections
PrefixPairs ==
    {<<DefaultGoalPrefix, DefaultSideGoalPrefix>>,
     <<CapitalGoalPrefix, CapitalSideGoalPrefix>>,
     <<PrefixG, PrefixG>>}

InitParse ==
    /\ description \in Descriptions
    /\ result = NoRecord
    /\ text = <<>>
    /\ client_title = Unset
    /\ MainIdle
    /\ FunctionsIdle

\* the call; the result is kept with the prefixes it was made with
ParseDescription(goal_prefix, side_goal_prefix) ==
    /\ result = NoRecord
    /\ result' = [kind |-> "parsed", goal_prefix |-> goal_prefix,
                  side_goal_prefix |-> side_goal_prefix] @@
                 parse_sprint_description(description, goal_prefix,
                                          side_goal_prefix)
    /\ UNCHANGED <<description, varsClient, varsMain, varsFunctions>>

NextParse ==
    \E prefixes \in PrefixPairs : ParseDescription(prefixes[1], prefixes[2])

SpecParse == InitParse /\ [][NextParse]_vars

\* the lines of the description, each trimmed
TrimmedLines ==
    LET lines == Split(Strip(description), "\n")
    IN [k \in 1..Len(lines) |-> Strip(lines[k])]

\* a list-item line of the given kind that carries an item text
IsItem(line, kind) ==
    /\ RemoveListMarker(line) # <<>>
    /\ \/ kind \in {"numbered", "any"} /\ _is_numbered_item(line)
       \/ kind \in {"dash", "any"} /\ _is_dash_item(line)

\* the title and client of the item on a line
ItemOf(line) ==
    LET ct == parse_client_from_text(RemoveListMarker(line))
    IN [title |-> ct[2], client |-> ct[1]]

\* the items of lines[ks[1]], lines[ks[2]], ...
ItemsAt(lines, ks) == [n \in 1..Len(ks) |-> ItemOf(lines[ks[n]])]

\* the indices k..Len(keep), in order, at which keep holds TRUE
RECURSIVE Indices(_, _)
Indices(keep, k) ==
    IF k > Len(keep) THEN <<>>
    ELSE (IF keep[k] THEN <<k>> ELSE <<>>) \o Indices(keep, k + 1)

TitlesAndClients(entries) ==
    [n \in 1..Len(entries) |->
        [title |-> entries[n].title, client |-> entries[n].client]]

SequentialIds(entries) == \A n \in 1..Len(entries) : entries[n].id = n

\* C7 as claimed: with no recognized header phrase (the five phrases that
\* select header mode) on any line, goals are exactly the numbered lines and
\* sideGoals exactly the dash/asterisk lines, in line order, with ids 1, 2, ...
MarkerModeKeepsEveryItem ==
    (result # NoRecord /\ ~has_explicit_headers(TrimmedLines)) =>
        LET lines == TrimmedLines
            IsNum == [k \in 1..Len(lines) |-> IsItem(lines[k], "numbered")]
            IsDash == [k \in 1..Len(lines) |-> IsItem(lines[k], "dash")]
        IN /\ TitlesAndClients(result.goals)
                = ItemsAt(lines, Indices(IsNum, 1))
           /\ TitlesAndClients(result.sideGoals)
                = ItemsAt(lines, Indices(IsDash, 1))
           /\ SequentialIds(result.goals)
           /\ SequentialIds(result.sideGoals)

\* the section in force after line k, following only the five recognized
\* header phrases and '##'/'**' lines
RECURSIVE SectionAfter(_, _)
SectionAfter(lines, k) ==
    IF k = 0 THEN "None"
    ELSE LET lower_line == Lower(lines[k]) IN
         IF ContainsAny(lower_line, GoalsKeywords) THEN "goals"
         ELSE IF ContainsAny(lower_line, {KwCelePoboczne, KwSideGoals})
              THEN "sideGoals"
         ELSE IF _is_section_header(lines[k]) THEN "None"
         ELSE SectionAfter(lines, k - 1)

\* C8 as claimed: when some line holds a recognized header phrase, every
\* list-item line goes to the section of the most recent recognized header,
\* whatever its marker; items before the first header or under an
\* unrecognized '##'/'**' header are dropped; a header line is never an item.
HeaderModeFollowsLastHeader ==
    (result # NoRecord /\ has_explicit_headers(TrimmedLines)) =>
        LET lines == TrimmedLines
            IsHeaderLine(k) == ContainsAny(Lower(lines[k]), HeaderKeywords)
            InSection(section) ==
                [k \in 1..Len(lines) |->
                    /\ IsItem(lines[k], "any") /\ ~IsHeaderLine(k)
                    /\ SectionAfter(lines, k) = section]
        IN /\ TitlesAndClients(result.goals)
                = ItemsAt(lines, Indices(InSection("goals"), 1))
           /\ TitlesAndClients(result.sideGoals)
                = ItemsAt(lines, Indices(InSection("sideGoals"), 1))

\* the tags of a section are pairwise distinct
DistinctTags(entries) ==
    \A m \in 1..Len(entries) : \A n \in 1..Len(entries) :
        entries[m].tag = entries[n].tag => m = n

\* the k-th entry of a section has id k and tag prefix + k
NumberedFromOne(entries, prefix) ==
    \A k \in 1..Len(entries) :
        entries[k].id = k /\ entries[k].tag = prefix \o IntToStr(k)

\* C11: in every parse result the k-th goal has id k and tag goalPrefix + k,
\* the k-th side goal has id k and tag sideGoalPrefix + k (two independent
\* counters from 1), tags are pairwise distinct within each section, and
\* there are no more entries than list-item lines, so that blank and
\* non-list lines advance no counter.
IdsAndTagsSequentialPerSection ==
    result # NoRecord =>
        /\ NumberedFromOne(result.goals, result.goal_prefix)
        /\ NumberedFromOne(result.sideGoals, result.side_goal_prefix)
        /\ DistinctTags(result.goals)
        /\ DistinctTags(result.sideGoals)
        /\ Len(result.goals) + Len(result.sideGoals)
             <= Cardinality({k \in 1..Len(TrimmedLines) :
                                IsItem(TrimmedLines[k], "any")})

\* C11 witness: a side goal between two goals, with one
\* prefix for both sections: goals G1, G2 and side goal G1
TwoCountersCase ==
    /\ description = JoinLines(<<LnGoalA, LnSideC, LnGoalClientB>>)
    /\ result # NoRecord
    /\ result.goal_prefix = PrefixG
    /\ Len(result.goals) = 2
    /\ result.goals[2].tag = <<"G", "2">>
    /\ Len(result.sideGoals) = 1
    /\ result.sideGoals[1].tag = <<"G", "1">>

----------------------------------------------------------------------------
(* The other specifications at rest *)

ParseIdle == description = <<>> /\ result = NoRecord
ClientIdle == text = <<>> /\ client_title = Unset

----------------------------------------------------------------------------
(* SpecMatch: map_task_to_goal and map_task_to_side_goal applied to short   *)
(* label lists and candidate lists                                          *)

MaxLabels == 2
MaxCandidates == 2

LabelCelDash1 == <<"C", "e", "l", "-", "1">>
LabelCel2Spaced == <<"c", "e", "l", " ", "_", "2">>
LabelOther == <<"o", "t", "h", "e", "r">>
TagCel1 == <<"c", "e", "l", "1">>
TagCel2 == <<"c", "e", "l", "2">>
TagCapitalCel1 == <<"C", "e", "l", "1">>
TagCelDash1 == <<"c", "e", "l", "-", "1">>

LabelPalette ==
    {LabelCel1, LabelCelDash1, LabelCel2Spaced, LabelExtraDash1, LabelOther}

TagPalette == {TagCel1, TagCel2, TagCapitalCel1, TagCelDash1}

LabelLists == UNION {[1..n -> LabelPalette] : n \in 0..MaxLabels}

CandidateLists ==
    UNION {[1..n -> [tag : TagPalette]] : n \in 0..MaxCandidates}

InitMatch ==
    /\ match_labels \in LabelLists
    /\ match_goals \in CandidateLists
    /\ match_result = NoRecord
    /\ ProgressIdle /\ StatusIdle /\ IssuesIdle /\ BuildIdle
    /\ ParseIdle /\ ClientIdle /\ MainIdle

MatchFrame ==
    UNCHANGED <<match_labels, match_goals, varsProgress, varsStatus,
                varsIssues, varsBuild, varsParse, varsClient, varsMain>>

\* the call of map_task_to_goal; a label that matches several tags through
\* the normalized comparison returns the one the set iteration meets first
MapTaskToGoal ==
    /\ match_result = NoRecord
    /\ \E tag \in MatchChoices(match_labels, LowerTags(match_goals), 1) :
            match_result' = [kind |-> "goal", tag |-> tag]
    /\ MatchFrame

MapTaskToSideGoal ==
    /\ match_result = NoRecord
    /\ \E tag \in MatchChoices(match_labels, LowerTags(match_goals), 1) :
            match_result' = [kind |-> "sideGoal", tag |-> tag]
    /\ MatchFrame

NextMatch == MapTaskToGoal \/ MapTaskToSideGoal

SpecMatch == InitMatch /\ [][NextMatch]_vars

\* a label matches a tag: equal without regard to case, or equal without
\* regard to case after hyphens, underscores and whitespace are removed
LabelMatchesTag(label, tag) ==
    \/ Lower(label) = Lower(tag)
    \/ Normalize(Lower(label)) = Normalize(Lower(tag))

\* C12 as claimed: the result is null or one of the candidate tags as they
\* were passed in; it is not null exactly when some label matches some
\* candidate, and then the first label that matches any candidate matches
\* the result.
MatchResultIsCandidate ==
    match_result # NoRecord =>
        LET candidates == {match_goals[i].tag : i \in 1..Len(match_goals)}
            hits == {k \in 1..Len(match_labels) :
                        \E tag \in candidates :
                            LabelMatchesTag(match_labels[k], tag)}
        IN /\ match_result.tag = Null \/ match_result.tag \in candidates
           /\ match_result.tag # Null <=> hits # {}
           /\ hits # {} =>
                LabelMatchesTag(
                    match_labels[CHOOSE k \in hits : \A h \in hits : k <= h],
                    match_result.tag)

----------------------------------------------------------------------------
(* SpecBuild: build_sprint_data applied to a fetched sprint and a task list, *)
(* with no existing record                                                   *)

MaxBuildTasks == 2
MaxTasks == 200

TaskKey(i) == <<"K">> \o IntToStr(i)

\* the labels a task may carry
TaskLabelLists ==
    {<<>>, <<LabelCel1>>, <<LabelCelDash1>>, <<LabelCel1, TagCel2>>,
     <<LabelExtraDash1>>, <<LabelOther, LabelCel2Spaced>>}

CanonicalStatuses == {"Done", "In Progress", "To Do"}

\* task lists with the keys K1, K2, ... and any labels and status
SmallTaskLists ==
    UNION {{[i \in 1..n |-> [key |-> TaskKey(i), status |-> choice[i][1],
                             labels |-> choice[i][2]]] :
               choice \in [1..n -> CanonicalStatuses \X TaskLabelLists]} :
           n \in 0..MaxBuildTasks}

\* two tasks that carry the same key K1, with any labels and status
DuplicateKeyTaskLists ==
    {[i \in 1..2 |-> [key |-> TaskKey(1), status |-> choice[i][1],
                      labels |-> choice[i][2]]] :
        choice \in [1..2 -> CanonicalStatuses \X TaskLabelLists]}

\* n tasks of goal 1, all done but the last one
AlmostDoneTasks(n) ==
    [i \in 1..n |-> [key |-> TaskKey(i),
                     status |-> IF i < n THEN "Done" ELSE "To Do",
                     labels |-> <<LabelCel1>>]]

\* the label prefixes a call may be made with: the defaults, and a pair
\* from config.json
BuildPrefixPairs ==
    {<<DefaultGoalPrefix, DefaultSideGoalPrefix>>,
     <<CapitalGoalPrefix, CapitalSideGoalPrefix>>}

BuildArgs(sprnt, tsks, prefixes) ==
    [kind |-> "args", sprint |-> sprnt, tasks |-> tsks,
     goal_prefix |-> prefixes[1], side_goal_prefix |-> prefixes[2]]

BuildInputs ==
    {BuildArgs(sprnt, tsks, prefixes) :
        sprnt \in RawSprints,
        tsks \in SmallTaskLists \cup DuplicateKeyTaskLists,
        prefixes \in BuildPrefixPairs}
    \cup
    {BuildArgs(RawSprint(GoalTextA, StateActive, DateTimeStart, <<>>),
               AlmostDoneTasks(n),
               <<DefaultGoalPrefix, DefaultSideGoalPrefix>>) :
        n \in 1..MaxTasks}

InitBuild ==
    /\ build_args \in BuildInputs
    /\ build_result = NoRecord
    /\ MatchIdle /\ ProgressIdle /\ StatusIdle /\ IssuesIdle
    /\ ParseIdle /\ ClientIdle /\ MainIdle

Build ==
    /\ build_result = NoRecord
    /\ build_result' = build_sprint_data(build_args.sprint, build_args.tasks,
                                         NoRecord, build_args.goal_prefix,
                                         build_args.side_goal_prefix)
    /\ UNCHANGED <<build_args, varsMatch, varsProgress, varsStatus, varsIssues,
                   varsParse, varsClient, varsMain>>

NextBuild == Build

SpecBuild == InitBuild /\ [][NextBuild]_vars

KeysOf(tsks) == [i \in 1..Len(tsks) |-> tsks[i].key]

\* done, inProgress, todo and total of a task list
StatsOf(tsks) ==
    LET count(status) ==
            Cardinality({i \in 1..Len(tsks) : tsks[i].status = status})
    IN [done |-> count("Done"), inProgress |-> count("In Progress"),
        todo |-> Len(tsks) - count("Done") - count("In Progress"),
        total |-> Len(tsks)]

\* C13 as claimed: for every prefix pair, every declaration d and every
\* task t, the key of t is in d.tasks exactly when a label of t matches
\* d.tag; the keys are in task order and d.taskStats aggregates exactly
\* those tasks.
TasksAssignedByMatchingLabel ==
    build_result # NoRecord =>
        \A section \in {"goals", "sideGoals"} :
            \A n \in 1..Len(build_result[section]) :
                LET d == build_result[section][n]
                    Matching(task) ==
                        \E k \in 1..Len(task.labels) :
                            LabelMatchesTag(task.labels[k], d.tag)
                    matched == SelectSeq(build_args.tasks, Matching)
                IN /\ d.tasks = KeysOf(matched)
                   /\ d.taskStats = StatsOf(matched)

\* the number of entries that list the key
TimesListed(entries, key) ==
    Cardinality({n \in 1..Len(entries) :
                    \E i \in 1..Len(entries[n].tasks) :
                        entries[n].tasks[i] = key})

\* C19 as claimed: the key of a task is in the tasks list of at most one
\* goal and of at most one side goal.
TaskInAtMostOneGoal ==
    build_result # NoRecord =>
        \A i \in 1..Len(build_args.tasks) :
            /\ TimesListed(build_result.goals, build_args.tasks[i].key) <= 1
            /\ TimesListed(build_result.sideGoals, build_args.tasks[i].key) <= 1

\* C20 as claimed: a goal or side goal that is completed has at least one
\* task, all its tasks done, none in progress or to do; and it is completed
\* exactly when its completionPercent is 100.
CompletedOnlyWhenAllDone ==
    build_result # NoRecord =>
        \A section \in {"goals", "sideGoals"} :
            \A n \in 1..Len(build_result[section]) :
                LET d == build_result[section][n] IN
                /\ d.completed =>
                     /\ d.taskStats.total >= 1
                     /\ d.taskStats.done = d.taskStats.total
                     /\ d.taskStats.inProgress = 0
                     /\ d.taskStats.todo = 0
                /\ d.completed <=> d.completionPercent = 100

\* C21 as claimed: for every task list, whatever keys the tasks carry, each
\* goal and side goal has taskStats.total equal to the length of its tasks
\* list, and done + inProgress + todo equal to total with the three counts
\* non-negative.
StatsAgreeWithTaskList ==
    build_result # NoRecord =>
        \A section \in {"goals", "sideGoals"} :
            \A n \in 1..Len(build_result[section]) :
                LET d == build_result[section][n] IN
                /\ d.taskStats.total = Len(d.tasks)
                /\ d.taskStats.done + d.taskStats.inProgress + d.taskStats.todo
                       = d.taskStats.total
                /\ d.taskStats.done >= 0
                /\ d.taskStats.inProgress >= 0
                /\ d.taskStats.todo >= 0

----------------------------------------------------------------------------
(* SpecProgress: calculate_goal_progress applied to task lists              *)

MaxProgressTasks == 4
MaxProgressTotal == 40

\* what a task's status may hold: the canonical ones and another value
TaskStatuses == CanonicalStatuses \cup {"Blocked"}

\* every short list, and longer lists of done tasks followed by others
ProgressInputs ==
    UNION {[1..n -> [status : TaskStatuses]] : n \in 0..MaxProgressTasks}
    \cup
    {[i \in 1..n |-> [status |-> IF i <= d THEN "Done" ELSE "To Do"]] :
        n \in 1..MaxProgressTotal, d \in 0..MaxProgressTotal}

InitProgress ==
    /\ progress_tasks \in ProgressInputs
    /\ progress_result = NoRecord
    /\ MatchIdle /\ StatusIdle /\ IssuesIdle /\ BuildIdle
    /\ ParseIdle /\ ClientIdle /\ MainIdle

CalculateGoalProgress ==
    /\ progress_result = NoRecord
    /\ progress_result' =
            [kind |-> "progress"] @@ calculate_goal_progress(progress_tasks)
    /\ UNCHANGED <<progress_tasks, varsMatch, varsStatus, varsIssues,
                   varsBuild, varsParse, varsClient, varsMain>>

NextProgress == CalculateGoalProgress

SpecProgress == InitProgress /\ [][NextProgress]_vars

\* p is an integer nearest to 100 * num / den
NearestPercent(p, num, den) ==
    LET diff == 100 * num - p * den
    IN 2 * (IF diff < 0 THEN -diff ELSE diff) <= den

\* C14: the empty list gives all zeros; otherwise total is the length, done
\* and inProgress count the statuses "Done" and "In Progress", todo is the
\* rest, and percent is an integer nearest to 100 * done / total, between 0
\* and 100.
ProgressCountsAndPercent ==
    progress_result # NoRecord =>
        LET n == Len(progress_tasks)
            count(status) ==
                Cardinality({i \in 1..n : progress_tasks[i].status = status})
            r == progress_result
        IN IF n = 0
           THEN /\ r.done = 0 /\ r.inProgress = 0 /\ r.todo = 0
                /\ r.total = 0 /\ r.percent = 0
           ELSE /\ r.total = n
                /\ r.done = count("Done")
                /\ r.inProgress = count("In Progress")
                /\ r.todo = n - r.done - r.inProgress
                /\ r.done + r.inProgress + r.todo = r.total
                /\ r.percent \in 0..100
                /\ NearestPercent(r.percent, r.done, n)

\* C14 witness: two of three tasks done, one in progress: 67 percent
TwoOfThreeDone ==
    /\ progress_tasks = <<[status |-> "Done"], [status |-> "Done"],
                          [status |-> "In Progress"]>>
    /\ progress_result # NoRecord
    /\ progress_result.percent = 67
    /\ progress_result.todo = 0

----------------------------------------------------------------------------
(* SpecStatus: map_jira_status applied to status fields                     *)

StatusNames ==
    {Absent,
     <<>>,
     <<"D", "o", "n", "e">>,
     <<"G", "o", "t", "o", "w", "e">>,
     <<" ", "W", " ", "t", "r", "a", "k", "c", "i", "e", " ">>,
     <<"I", "N", " ", "P", "R", "O", "G", "R", "E", "S", "S">>,
     <<"B", "a", "c", "k", "l", "o", "g">>,
     <<"U", "n", "k", "n", "o", "w", "n", " ", "S", "t", "a", "t", "u", "s">>,
     <<"Z", "a", "m", "k", "n", "i", "e_ogonek", "t", "e">>,
     <<"I", "n", " ", " ", "P", "r", "o", "g", "r", "e", "s", "s">>,
     <<"r", "e", "v", "i", "e", "w", "\n">>}

CategoryKeys ==
    {Absent,
     <<>>,
     <<"d", "o", "n", "e">>,
     <<"D", "O", "N", "E">>,
     <<"I", "n", "d", "e", "t", "e", "r", "m", "i", "n", "a", "t", "e">>,
     <<"n", "e", "w">>,
     <<"u", "n", "d", "e", "f", "i", "n", "e", "d">>,
     <<" ", "d", "o", "n", "e">>}

\* None, and dictionaries with or without a name, with or without a status
\* category (None and the empty dictionary included), with or without a key
StatusFields ==
    {NoRecord}
    \cup {[kind |-> "status", name |-> name, statusCategory |-> category] :
            name \in StatusNames,
            category \in {AbsentDict, NoRecord}
                         \cup {[kind |-> "category", key |-> key] :
                                 key \in CategoryKeys}}

InitStatus ==
    /\ status_field \in StatusFields
    /\ status_result = "none"
    /\ MatchIdle /\ ProgressIdle /\ IssuesIdle /\ BuildIdle
    /\ ParseIdle /\ ClientIdle /\ MainIdle

MapJiraStatus ==
    /\ status_result = "none"
    /\ status_result' = map_jira_status(status_field)
    /\ UNCHANGED <<status_field, varsMatch, varsProgress, varsIssues,
                   varsBuild, varsParse, varsClient, varsMain>>

NextStatus == MapJiraStatus

SpecStatus == InitStatus /\ [][NextStatus]_vars

KeyDone == <<"d", "o", "n", "e">>
KeyIndeterminate == <<"i", "n", "d", "e", "t", "e", "r", "m", "i", "n", "a", "t", "e">>
KeyNew == <<"n", "e", "w">>

\* the lower-cased statusCategory.key of the field, <<>> without one
LowerKeyOf(field) ==
    IF field = NoRecord THEN <<>>
    ELSE IF field.statusCategory \in {AbsentDict, NoRecord} THEN <<>>
    ELSE IF field.statusCategory.key = Absent THEN <<>>
    ELSE Lower(field.statusCategory.key)

\* the trimmed, lower-cased name of the field, <<>> without one
TrimmedLowerNameOf(field) ==
    IF field = NoRecord THEN <<>>
    ELSE IF field.name = Absent THEN <<>>
    ELSE Strip(Lower(field.name))

\* C15: the result is always one of Done, In Progress, To Do; an absent or
\* empty field gives To Do; a statusCategory.key that is done, indeterminate
\* or new without regard to case decides whatever the name is; otherwise
\* the trimmed, lower-cased name is looked up in the synonym table; anything
\* else gives To Do.
StatusMappedFirstMatchWins ==
    status_result # "none" =>
        LET key == LowerKeyOf(status_field)
            name == TrimmedLowerNameOf(status_field)
        IN /\ status_result \in CanonicalStatuses
           /\ status_result =
                IF key = KeyDone THEN "Done"
                ELSE IF key = KeyIndeterminate THEN "In Progress"
                ELSE IF key = KeyNew THEN "To Do"
                ELSE IF \E row \in STATUS_NAME_FALLBACK : row[1] = name
                     THEN (CHOOSE row \in STATUS_NAME_FALLBACK : row[1] = name)[2]
                     ELSE "To Do"

\* C15 witness: the category key DONE decides against the name Backlog
CategoryKeyDecides ==
    /\ status_field # NoRecord
    /\ status_field.name = <<"B", "a", "c", "k", "l", "o", "g">>
    /\ status_field.statusCategory = [kind |-> "category", key |-> <<"D", "O", "N", "E">>]
    /\ status_result = "Done"

----------------------------------------------------------------------------
(* SpecIssues: the issues of a sprint are transformed into tasks, one after *)
(* the other, with the epic names looked up through the cache of the run    *)

MaxIssues == 3

EpicE1 == <<"E", "-", "1">>
EpicE2 == <<"E", "-", "2">>
EpicNameA == <<"A">>
EpicNameB == <<"B">>

\* customfield_10014 of an issue: None, the empty string, or an epic key
EpicLinks == {Null, <<>>, EpicE1, EpicE2}

\* what get_epic_name may return: None when the request gave no data
EpicAnswers == {Null, EpicNameA, EpicNameB}

StatusDoneByCategory ==
    [kind |-> "status", name |-> <<"G", "o", "t", "o", "w", "e">>,
     statusCategory |-> [kind |-> "category", key |-> <<"d", "o", "n", "e">>]]

\* the fields of an issue other than the epic link
IssueShapes ==
    {[summary |-> <<"s">>, status |-> NoRecord, labels |-> <<>>,
      assignee |-> NoRecord],
     [summary |-> <<"t">>, status |-> StatusDoneByCategory,
      labels |-> <<LabelCel1>>,
      assignee |-> [kind |-> "user", displayName |-> <<"D">>, name |-> <<"n">>]],
     [summary |-> <<"u">>, status |-> StatusDoneByCategory,
      labels |-> <<LabelCel1>>,
      assignee |-> [kind |-> "user", displayName |-> Absent, name |-> <<"n">>]]}

Issue(i, shape, epic) ==
    [key |-> TaskKey(i),
     fields |-> [summary |-> shape.summary, status |-> shape.status,
                 labels |-> shape.labels, assignee |-> shape.assignee,
                 customfield_10014 |-> epic]]

\* the issue lists get_sprint_issues may return
IssueLists ==
    UNION {{[i \in 1..n |-> Issue(i, choice[i][1], choice[i][2])] :
               choice \in [1..n -> IssueShapes \X EpicLinks]} :
           n \in 0..MaxIssues}

CacheHitWithName(cache, epic_key) ==
    \E entry \in cache : entry[1] = epic_key /\ entry[2] # Null

\* epic_key in epic_cache; the cache is the set of its <<key, value>> pairs
CacheHit(cache, epic_key) == \E entry \in cache : entry[1] = epic_key

\* epic_cache.get(epic_key)
CacheGet(cache, epic_key) ==
    IF \E entry \in cache : entry[1] = epic_key
    THEN (CHOOSE entry \in cache : entry[1] = epic_key)[2]
    ELSE Null

\* fields['assignee'].get('displayName', fields['assignee'].get('name'))
AssigneeName(assignee) ==
    IF assignee = NoRecord THEN Null
    ELSE IF assignee.displayName # Absent THEN assignee.displayName
    ELSE IF assignee.name # Absent THEN assignee.name
    ELSE Null

\* whether transform_issue calls get_epic_name for this issue
CallsGetEpicName(issue, cache) ==
    LET epic_key == issue.fields.customfield_10014 IN
    epic_key \notin {Null, <<>>} /\ ~CacheHit(cache, epic_key)

\* the cache after transform_issue, answer being what get_epic_name returns
CacheAfter(issue, cache, answer) ==
    IF CallsGetEpicName(issue, cache)
    THEN cache \cup {<<issue.fields.customfield_10014, answer>>}
    ELSE cache

\* the task transform_issue returns
transform_issue(issue, cache, answer) ==
    LET fields == issue.fields
        epic_key == fields.customfield_10014
    IN [key |-> issue.key,
        summary |-> fields.summary,
        status |-> map_jira_status(fields.status),
        labels |-> fields.labels,
        epic |-> IF epic_key \in {Null, <<>>} THEN Null
                 ELSE CacheGet(CacheAfter(issue, cache, answer), epic_key),
        assignee |-> AssigneeName(fields.assignee)]

InitIssues ==
    /\ issues \in IssueLists
    /\ epic_cache = {}
    /\ epic_calls = <<>>
    /\ tasks_out = <<>>
    /\ MatchIdle /\ ProgressIdle /\ StatusIdle /\ BuildIdle
    /\ ParseIdle /\ ClientIdle /\ MainIdle

\* one iteration of the list comprehension of main
TransformIssue(answer) ==
    /\ Len(tasks_out) < Len(issues)
    /\ LET issue == issues[Len(tasks_out) + 1] IN
       /\ ~CallsGetEpicName(issue, epic_cache) => answer = Null
       /\ epic_calls' = IF CallsGetEpicName(issue, epic_cache)
                        THEN Append(epic_calls, issue.fields.customfield_10014)
                        ELSE epic_calls
       /\ epic_cache' = CacheAfter(issue, epic_cache, answer)
       /\ tasks_out' = Append(tasks_out,
                              transform_issue(issue, epic_cache, answer))
    /\ UNCHANGED <<issues, varsMatch, varsProgress, varsStatus, varsBuild,
                   varsParse, varsClient, varsMain>>

NextIssues == \E answer \in EpicAnswers : TransformIssue(answer)

SpecIssues == InitIssues /\ [][NextIssues]_vars

EpicKeyOf(i) == issues[i].fields.customfield_10014

\* C18: get_epic_name is called at most once per epic key, also when the
\* first call returned no data, only for epic keys of issues transformed so
\* far and never for an issue without an epic key; every task of an issue
\* with epic key k has the epic value of the first task with key k, and a
\* task of an issue without an epic key has none.
EpicNameFetchedOncePerKey ==
    LET done == 1..Len(tasks_out) IN
    /\ \A m \in 1..Len(epic_calls) : \A n \in 1..Len(epic_calls) :
            epic_calls[m] = epic_calls[n] => m = n
    /\ \A m \in 1..Len(epic_calls) :
            /\ epic_calls[m] \notin {Null, <<>>}
            /\ \E i \in done : EpicKeyOf(i) = epic_calls[m]
    /\ \A i \in done : \A j \in done :
            (i < j /\ EpicKeyOf(i) = EpicKeyOf(j))
                => tasks_out[j].epic = tasks_out[i].epic
    /\ \A i \in done :
            EpicKeyOf(i) \in {Null, <<>>} => tasks_out[i].epic = Null

\* C18 witness: the first call for E-1 returned no data, a second issue of
\* E-1 followed, and there was one call
SecondIssueOfEpicWithoutName ==
    /\ Len(tasks_out) >= 2
    /\ EpicKeyOf(1) = EpicE1
    /\ EpicKeyOf(2) = EpicE1
    /\ tasks_out[1].epic = Null
    /\ tasks_out[2].epic = Null
    /\ epic_calls = <<EpicE1>>

----------------------------------------------------------------------------
(* SpecPointer: runs of one orchestrator over a store that holds the record  *)
(* files of several sprints, sprint_files[id] being sprint-<id>.json, and    *)
(* the current-sprint pointer.  The sprints declare no goals and have no     *)
(* issues; the review UI closes stored sprints between the steps of a run.   *)

StateActiveCapital == <<"A", "c", "t", "i", "v", "e">>

\* what the tracker may return for a sprint of the board
PointerSprints ==
    {[RawSprint(<<>>, state, DateTimeStart, <<>>) EXCEPT !.id = i] :
        i \in SprintIds,
        state \in {StateActive, StateActiveCapital, StateClosed, StateFuture}}

\* main from the load of sprint-<sprint_id>.json to the built record
LoadSprintFile(transportOk, config) ==
    /\ pc = "fetched"
    /\ variant = "local" => transportOk
    /\ LET stored == sprint_files[sprint.id]
           loaded == IF variant = "local" THEN load_existing_sprint(stored)
                     ELSE get_file(stored, transportOk)
           existing == IF variant = "local" \/ loaded = NoRecord THEN loaded
                       ELSE loaded.content
           sha == IF variant = "local" \/ loaded = NoRecord THEN NoRecord
                  ELSE loaded.sha
       IN IF loaded = [kind |-> "raised"]
          THEN /\ Exit(1)
               /\ UNCHANGED <<existing_data, buildCalls>>
          ELSE /\ existing_data' = existing
               /\ IF FreezeGate(existing)
                  THEN Exit(0) /\ UNCHANGED buildCalls
                  ELSE /\ sprint_data' =
                            IF variant = "local"
                            THEN build_sprint_data(sprint, tasks, existing,
                                                   config[1], config[2])
                            ELSE build_sprint_data(sprint, tasks, existing,
                                                   DefaultGoalPrefix,
                                                   DefaultSideGoalPrefix)
                       /\ buildCalls' = buildCalls + 1
                       /\ existing_sha' = sha
                       /\ loadedStore' = stored
                       /\ pc' = "built"
                       /\ UNCHANGED <<exitCode, sprint, tasks>>
    /\ UNCHANGED <<variant, store, pointer, writes, saveResult, sprint_files,
                   varsParse, varsClient, varsFunctions>>

\* the save of the sprint record: save_sprint_data writes the file named
\* after sprint_data['id'], update_file the file named after sprint_id
SaveSprintFile(transportOk) ==
    /\ pc = "built"
    /\ variant = "local" => transportOk
    /\ LET file_id == IF variant = "local" THEN sprint_data.id ELSE sprint.id
           stored == sprint_files[file_id]
       IN IF variant = "local"
             \/ (transportOk /\ PutAccepted(stored, SaveSha(existing_sha, stored)))
          THEN /\ sprint_files' = [sprint_files EXCEPT ![file_id] = sprint_data]
               /\ writes' = writes + 1
               /\ saveResult' = "saved"
               /\ pc' = "saved"
               /\ UNCHANGED <<exitCode, sprint, tasks, existing_sha,
                              sprint_data, loadedStore>>
          ELSE /\ saveResult' = IF transportOk THEN "rejected" ELSE "failed"
               /\ Exit(1)
               /\ UNCHANGED <<sprint_files, writes>>
    /\ UNCHANGED <<variant, existing_data, store, pointer, buildCalls,
                   varsParse, varsClient, varsFunctions>>

\* the review UI closes the stored sprint i
UICloseSprintFile(i) ==
    /\ sprint_files[i].kind = "stored"
    /\ sprint_files[i].status = "active"
    /\ sprint_files' = [sprint_files EXCEPT ![i].status = "closed",
                                            ![i].closedAt = "ts"]
    /\ UNCHANGED <<variant, pc, exitCode, sprint, tasks, existing_data,
                   existing_sha, sprint_data, store, pointer, loadedStore,
                   writes, buildCalls, saveResult, varsParse, varsClient,
                   varsFunctions>>

NextPointer ==
    \/ \E withSprintId \in BOOLEAN, connected \in BOOLEAN,
          raw \in PointerSprints \cup {NoRecord} :
            StartRun(withSprintId, connected, raw, <<>>)
    \/ \E transportOk \in BOOLEAN, config \in Configs :
            LoadSprintFile(transportOk, config)
    \/ \E transportOk \in BOOLEAN : SaveSprintFile(transportOk)
    \/ \E getOk \in BOOLEAN, putOk \in BOOLEAN : UpdatePointer(getOk, putOk)
    \/ \E i \in SprintIds : UICloseSprintFile(i)

SpecPointer == Init /\ [][NextPointer]_vars

\* the state is the word "active" in any mix of upper and lower case
IsActiveIgnoringCase(state) ==
    /\ Len(state) = Len(StateActive)
    /\ \A k \in 1..Len(state) :
          state[k] \in {StateActive[k], <<"A", "C", "T", "I", "V", "E">>[k]}

\* C22: the pointer is written only in a run that has saved its sprint
\* record, so the pointer always names a sprint whose record file exists; a
\* run that ends at the freeze gate or at a failed save leaves the pointer
\* as it was; the pointer written names the fetched sprint, with isActive
\* true exactly when the fetched state is "active" in any letter case.
PointerWrittenAfterRecord ==
    /\ [](pointer # NoRecord =>
            sprint_files[pointer.currentSprintId] # NoRecord)
    /\ [][pointer' # pointer =>
            /\ pc = "saved"
            /\ saveResult = "saved"
            /\ sprint_files[sprint.id] # NoRecord]_vars
    /\ [][(pc \in {"fetched", "built"} /\ pc' = "done") =>
            pointer' = pointer]_vars
    /\ [][(pc = "saved" /\ pc' = "done" /\ exitCode' = 0) =>
            /\ pointer'.currentSprintId = sprint.id
            /\ pointer'.isActive <=> IsActiveIgnoringCase(sprint.state)]_vars

\* a run on sprint 1 was skipped by the freeze gate and the pointer still
\* names sprint 2, written by an earlier run that fetched the state
\* "Active"
GateSkipKeepsPointer ==
    /\ pc = "done"
    /\ exitCode = 0
    /\ buildCalls = 0
    /\ existing_data # NoRecord
    /\ existing_data.id = 1
    /\ existing_data.status = "closed"
    /\ pointer # NoRecord
    /\ pointer.currentSprintId = 2
    /\ pointer.isActive
    /\ sprint_files[2].status = "active"

====
